---- MODULE Spec2Model ----
(***************************************************************************)
(* A model of src/EDMGame.py: edge servers with a capacity and a load, a   *)
(* batch of requests with an intensity, and the session (EDMGame) that     *)
(* allocates the batch over a min-heap of servers, drains the servers and  *)
(* runs the bounded best-response search.                                  *)
(*                                                                         *)
(* A server is a position 1..Len(capacity) of the list edge_servers; a     *)
(* request is a record [id, intensity] (its attack flag is never read).    *)
(***************************************************************************)
EXTENDS Integers, Sequences, FiniteSets

\* ---- bounds of the model ------------------------------------------------
MaxServers == 2
MaxCapacity == 2
MaxIntensity == 2
MaxRequests == 3
MaxCost == 1
MaxLatency == 1
MaxProcessed == 2
MaxDrains == 2
MaxIterations == 2

\* ---- program constant: the cap of `while iteration < 1000` ---------------
MaxRounds == 1000

VARIABLES
    capacity,                  \* EdgeServer.capacity, by position in edge_servers
    current_load,              \* EdgeServer.current_load, by position
    attack_requests,           \* EDMGame.attack_requests: sequence of requests
    mitigation_cost,           \* EDMGame.mitigation_cost
    extra_service_latency,     \* EDMGame.extra_service_latency
    total_processed_requests,  \* EDMGame.total_processed_requests
    pc,                        \* "idle", or "nash" inside find_nash_equilibrium
    iteration,                 \* local of find_nash_equilibrium
    nash_equilibrium_reached,  \* local of find_nash_equilibrium
    call,                      \* history: the operation last called
    pre,                       \* history: the state when that operation began
    log,                       \* history: what allocate_requests did, per request
    round                      \* history: what the last solver round did

vars == <<capacity, current_load, attack_requests, mitigation_cost,
          extra_service_latency, total_processed_requests, pc, iteration,
          nash_equilibrium_reached, call, pre, log, round>>

Servers == 1..Len(capacity)

Intensities == 0..MaxIntensity

\* F(v), with v evaluated once before F is applied: the state a loop carries
\* from one pass to the next is a value, as it is in the program
Then(v, F(_)) == CHOOSE w \in {F(u) : u \in {v}} : TRUE

\* ---- EdgeServer ---------------------------------------------------------

is_available_le(load, cap) == load <= cap

is_available(load, cap) == load < cap

add_request_capped(load, cap, intensity) ==
    IF is_available(load, cap)
    THEN [load |-> IF load + intensity > cap THEN cap ELSE load + intensity,
          ok |-> TRUE]
    ELSE [load |-> load, ok |-> FALSE]

add_request_counts_request(load, cap, intensity) ==
    IF is_available(load, cap)
    THEN [load |-> load + intensity + 1, ok |-> TRUE]
    ELSE [load |-> load, ok |-> FALSE]

\* the new load and the value returned
add_request(load, cap, intensity) ==
    IF is_available(load, cap)
    THEN [load |-> load + intensity, ok |-> TRUE]
    ELSE [load |-> load, ok |-> FALSE]

remove_request_all(load) == 0

remove_request_unguarded(load) == load - 1

remove_request(load) == IF load > 0 THEN load - 1 ELSE load

process_request(load) == IF load > 0 THEN remove_request(load) ELSE load

cost(load) == load

server_gt(load, s, t) == load[s] > load[t]

\* EdgeServer.__lt__ on two servers of the list, under the loads `load`
server_lt(load, s, t) == load[s] < load[t]

\* ---- heapq on a list of servers (positions are 0-based as in heapq) ------

RECURSIVE siftdown_loop(_, _, _, _, _)
siftdown_loop(load, heap, startpos, pos, newitem) ==
    IF pos > startpos
    THEN LET parentpos == (pos - 1) \div 2
             parent == heap[parentpos + 1]
         IN  IF server_lt(load, newitem, parent)
             THEN siftdown_loop(load, [heap EXCEPT ![pos + 1] = parent],
                                startpos, parentpos, newitem)
             ELSE [heap EXCEPT ![pos + 1] = newitem]
    ELSE [heap EXCEPT ![pos + 1] = newitem]

siftdown(load, heap, startpos, pos) ==
    siftdown_loop(load, heap, startpos, pos, heap[pos + 1])

RECURSIVE siftup_loop(_, _, _, _, _, _)
siftup_loop(load, heap, startpos, pos, childpos, newitem) ==
    IF childpos < Len(heap)
    THEN LET rightpos == childpos + 1
             c == IF rightpos < Len(heap)
                     /\ ~ server_lt(load, heap[childpos + 1], heap[rightpos + 1])
                  THEN rightpos ELSE childpos
         IN  siftup_loop(load, [heap EXCEPT ![pos + 1] = heap[c + 1]],
                         startpos, c, 2 * c + 1, newitem)
    ELSE siftdown(load, [heap EXCEPT ![pos + 1] = newitem], startpos, pos)

siftup(load, heap, pos) ==
    siftup_loop(load, heap, pos, pos, 2 * pos + 1, heap[pos + 1])

RECURSIVE heapify_loop(_, _, _)
heapify_loop(load, x, i) ==
    IF i < 0 THEN x ELSE heapify_loop(load, siftup(load, x, i), i - 1)

heapify(load, x) == heapify_loop(load, x, (Len(x) \div 2) - 1)

\* the server popped and the heap left
heappop(load, heap) ==
    LET lastelt == heap[Len(heap)]
        rest == SubSeq(heap, 1, Len(heap) - 1)
    IN  IF rest # <<>>
        THEN [item |-> rest[1],
              heap |-> siftup(load, [rest EXCEPT ![1] = lastelt], 0)]
        ELSE [item |-> lastelt, heap |-> rest]

heappush_append(load, heap, item) == Append(heap, item)

heappush_lost(load, heap, item) == heap

heappush(load, heap, item) ==
    siftdown(load, Append(heap, item), 0, Len(heap))

\* ---- list.sort(key=intensity, reverse=True): stable, descending ----------

sort_insert_before_ties(sorted, x) ==
    LET p == Cardinality({j \in 1..Len(sorted) :
                             sorted[j].intensity > x.intensity})
    IN  SubSeq(sorted, 1, p) \o <<x>> \o SubSeq(sorted, p + 1, Len(sorted))

sort_insert(sorted, x) ==
    LET p == Cardinality({j \in 1..Len(sorted) :
                             sorted[j].intensity >= x.intensity})
    IN  SubSeq(sorted, 1, p) \o <<x>> \o SubSeq(sorted, p + 1, Len(sorted))

RECURSIVE sort_by_intensity(_)
sort_by_intensity(reqs) ==
    IF reqs = <<>> THEN <<>>
    ELSE sort_insert(sort_by_intensity(SubSeq(reqs, 1, Len(reqs) - 1)),
                     reqs[Len(reqs)])

\* ---- EDMGame.allocate_requests ------------------------------------------

RECURSIVE available_servers_all(_, _, _)
available_servers_all(load, cap, s) ==
    IF s > Len(cap) THEN <<>>
    ELSE <<s>> \o available_servers_all(load, cap, s + 1)

\* the servers kept by the list comprehension, in list order
RECURSIVE available_servers(_, _, _)
available_servers(load, cap, s) ==
    IF s > Len(cap) THEN <<>>
    ELSE (IF is_available(load[s], cap[s]) THEN <<s>> ELSE <<>>)
         \o available_servers(load, cap, s + 1)

mitigation_cost_by_unit(mc, added, request) ==
    IF added.ok THEN mc + 1 ELSE mc

\* mitigation_cost after the attempt `added` to admit `request`
mitigation_cost_after(mc, added, request) ==
    IF added.ok THEN mc + request.intensity ELSE mc

latency_every_attempt(lat, added) == lat + 1

\* extra_service_latency after the attempt `added`
latency_after(lat, added) == IF added.ok THEN lat ELSE lat + 1

\* one pass of the body of `for request in self.attack_requests`
allocate_one(cap, st, request) ==
    IF st.heap # <<>>
    THEN LET popped == heappop(st.load, st.heap)
             min_load_server == popped.item
             added == add_request(st.load[min_load_server],
                                  cap[min_load_server], request.intensity)
             load2 == [st.load EXCEPT ![min_load_server] = added.load]
         IN  [load |-> load2,
              heap |-> heappush(load2, popped.heap, min_load_server),
              mc   |-> mitigation_cost_after(st.mc, added, request),
              lat  |-> latency_after(st.lat, added),
              log  |-> Append(st.log,
                         [request |-> request,
                          outcome |-> IF added.ok THEN "admitted" ELSE "failed",
                          server  |-> min_load_server,
                          heap    |-> st.heap,
                          load    |-> st.load])]
    ELSE [st EXCEPT !.lat = st.lat + 1,
                    !.log = Append(st.log,
                              [request |-> request,
                               outcome |-> "empty",
                               server  |-> 0,
                               heap    |-> st.heap,
                               load    |-> st.load])]

RECURSIVE allocate_loop(_, _, _, _)
allocate_loop(cap, reqs, i, st) ==
    IF i > Len(reqs) THEN st
    ELSE Then(allocate_one(cap, st, reqs[i]),
              LAMBDA st2 : allocate_loop(cap, reqs, i + 1, st2))

\* the whole call: the state it leaves and the sorted request list
allocate(load, cap, reqs, mc, lat) ==
    LET sorted == sort_by_intensity(reqs)
        st0 == [load |-> load,
                heap |-> heapify(load, available_servers(load, cap, 1)),
                mc   |-> mc,
                lat  |-> lat,
                log  |-> <<>>]
    IN  [st |-> allocate_loop(cap, sorted, 1, st0), requests |-> sorted]

\* ---- EDMGame.process_requests -------------------------------------------

drain_one_counts_idle(st, s) ==
    [load |-> [st.load EXCEPT ![s] = process_request(st.load[s])],
     tpr  |-> st.tpr + 1]

\* one pass of the body of `for server in self.edge_servers`
drain_one(st, s) ==
    IF st.load[s] > 0
    THEN [load |-> [st.load EXCEPT ![s] = process_request(st.load[s])],
          tpr  |-> st.tpr + 1]
    ELSE st

RECURSIVE drain_loop(_, _)
drain_loop(st, s) ==
    IF s > Len(st.load) THEN st
    ELSE Then(drain_one(st, s), LAMBDA st2 : drain_loop(st2, s + 1))

\* ---- EDMGame.find_nash_equilibrium --------------------------------------

worsens(c, best_cost) == c > best_cost

improves_or_ties(c, best_cost) == c <= best_cost

\* `if cost < best_cost`
improves(c, best_cost) == c < best_cost

nash_trial_always_removes(cap, t, request) ==
    LET added == add_request(t.load, cap, request.intensity)
        c == cost(added.load)
        better == added.ok /\ improves(c, t.best_cost)
    IN  [load         |-> remove_request(added.load),
         best_cost    |-> IF better THEN c ELSE t.best_cost,
         best_request |-> IF better THEN <<request>> ELSE t.best_request,
         found        |-> IF better THEN t.found \cup {request} ELSE t.found]

\* best_request is <<>> for None and <<request>> otherwise
\* one pass of the body of `for request in self.attack_requests`
nash_trial(cap, t, request) ==
    LET added == add_request(t.load, cap, request.intensity)
    IN  IF added.ok
        THEN LET c == cost(added.load)
                 better == improves(c, t.best_cost)
             IN  [load         |-> remove_request(added.load),
                  best_cost    |-> IF better THEN c ELSE t.best_cost,
                  best_request |-> IF better THEN <<request>> ELSE t.best_request,
                  found        |-> IF better THEN t.found \cup {request}
                                             ELSE t.found]
        ELSE t

RECURSIVE nash_trials(_, _, _, _)
nash_trials(cap, reqs, i, t) ==
    IF i > Len(reqs) THEN t
    ELSE Then(nash_trial(cap, t, reqs[i]),
              LAMBDA t2 : nash_trials(cap, reqs, i + 1, t2))

nash_server_keeps_flag(cap, reqs, r, s) ==
    LET t0 == [load |-> r.load[s], best_cost |-> cost(r.load[s]),
               best_request |-> <<>>, found |-> {}]
        commit(t) ==
            IF t.best_request # <<>>
            THEN LET committed == add_request(t.load, cap[s],
                                              t.best_request[1].intensity)
                 IN  [load    |-> [r.load EXCEPT ![s] = committed.load],
                      reached |-> r.reached,
                      found   |-> r.found \cup t.found,
                      commits |-> Append(r.commits,
                                    [server |-> s, request |-> t.best_request[1],
                                     before |-> t.load, after |-> committed.load])]
            ELSE [r EXCEPT !.load = [r.load EXCEPT ![s] = t.load]]
    IN  Then(nash_trials(cap[s], reqs, 1, t0), commit)

\* one pass of the body of `for server in self.edge_servers`
nash_server(cap, reqs, r, s) ==
    LET t0 == [load |-> r.load[s], best_cost |-> cost(r.load[s]),
               best_request |-> <<>>, found |-> {}]
        commit(t) ==
            IF t.best_request # <<>>
            THEN LET committed == add_request(t.load, cap[s],
                                              t.best_request[1].intensity)
                 IN  [load    |-> [r.load EXCEPT ![s] = committed.load],
                      reached |-> FALSE,
                      found   |-> r.found \cup t.found,
                      commits |-> Append(r.commits,
                                    [server |-> s, request |-> t.best_request[1],
                                     before |-> t.load, after |-> committed.load])]
            ELSE [r EXCEPT !.load = [r.load EXCEPT ![s] = t.load]]
    IN  Then(nash_trials(cap[s], reqs, 1, t0), commit)

RECURSIVE nash_servers(_, _, _, _)
nash_servers(cap, reqs, r, s) ==
    IF s > Len(cap) THEN r
    ELSE Then(nash_server(cap, reqs, r, s),
              LAMBDA r2 : nash_servers(cap, reqs, r2, s + 1))

\* one pass of the body of `while iteration < 1000`, after `iteration += 1`
nash_round(load, cap, reqs) ==
    nash_servers(cap, reqs,
                 [load |-> load, reached |-> TRUE, found |-> {}, commits |-> <<>>],
                 1)

\* ---- history values -----------------------------------------------------

NoPre == [load |-> <<>>, mc |-> 0, lat |-> 0, tpr |-> 0]

Snapshot == [load |-> current_load, mc |-> mitigation_cost,
             lat |-> extra_service_latency, tpr |-> total_processed_requests]

NoRound == [start |-> <<>>, found |-> {}, commits |-> <<>>]

Called(op, s, i, ok, k) ==
    [op |-> op, server |-> s, intensity |-> i, ok |-> ok, k |-> k]

\* ---- the state after construction ---------------------------------------

RequestLists ==
    UNION {{[j \in 1..n |-> [id |-> j, intensity |-> f[j]]] :
               f \in [1..n -> Intensities]} : n \in 0..MaxRequests}

CapacityLists == UNION {[1..n -> 1..MaxCapacity] : n \in 0..MaxServers}

\* EDMGame.__init__ and the locals and history of a session not yet used
NewSession ==
    /\ mitigation_cost = 0
    /\ extra_service_latency = 0
    /\ total_processed_requests = 0
    /\ pc = "idle"
    /\ iteration = 0
    /\ nash_equilibrium_reached = FALSE
    /\ call = Called("init", 0, 0, FALSE, 0)
    /\ pre = NoPre
    /\ log = <<>>
    /\ round = NoRound

\* fresh servers (EdgeServer.__init__) and a batch, handed to a new session
Init ==
    /\ capacity \in CapacityLists
    /\ current_load = [s \in 1..Len(capacity) |-> 0]
    /\ attack_requests \in RequestLists
    /\ NewSession

\* servers that already carry load (any load add_request can leave) and a
\* batch, handed to a new session
LoadedInit ==
    /\ capacity \in CapacityLists
    /\ current_load \in [1..Len(capacity) -> 0..(MaxCapacity - 1 + MaxIntensity)]
    /\ \A s \in 1..Len(capacity) :
           current_load[s] <= capacity[s] - 1 + MaxIntensity
    /\ attack_requests \in RequestLists
    /\ NewSession

\* Scenario 1: S0 and S1 with capacities 3 and 2, in either list order, and
\* the batch R0, R1, R2 of intensities 5, 3, 1
Scenario1Init ==
    /\ capacity \in {<<3, 2>>, <<2, 3>>}
    /\ current_load = <<0, 0>>
    /\ attack_requests = <<[id |-> 1, intensity |-> 5],
                           [id |-> 2, intensity |-> 3],
                           [id |-> 3, intensity |-> 1]>>
    /\ NewSession

\* ---- operations ---------------------------------------------------------

session == <<mitigation_cost, extra_service_latency, total_processed_requests>>
solver == <<pc, iteration, nash_equilibrium_reached, round>>

\* server.add_request(request), called on server s with a request of the batch
CallAddRequest(s, request) ==
    /\ pc = "idle"
    /\ LET added == add_request(current_load[s], capacity[s], request.intensity)
       IN  /\ current_load' = [current_load EXCEPT ![s] = added.load]
           /\ call' = Called("add_request", s, request.intensity, added.ok, 0)
    /\ pre' = Snapshot
    /\ log' = <<>>
    /\ UNCHANGED <<capacity, attack_requests, session, solver>>

\* server.remove_request(); when the call comes right after a successful
\* add_request on the same server, the history keeps the intensity and the
\* snapshot of that add_request
CallRemoveRequest(s) ==
    /\ pc = "idle"
    /\ current_load' = [current_load EXCEPT ![s] = remove_request(current_load[s])]
    /\ LET undo == call.op = "add_request" /\ call.server = s /\ call.ok
       IN  /\ call' = Called("remove_request", s,
                             IF undo THEN call.intensity ELSE 0, undo, 0)
           /\ pre' = IF undo THEN pre ELSE Snapshot
    /\ log' = <<>>
    /\ UNCHANGED <<capacity, attack_requests, session, solver>>

\* server.process_request()
CallProcessRequest(s) ==
    /\ pc = "idle"
    /\ current_load' = [current_load EXCEPT ![s] = process_request(current_load[s])]
    /\ call' = Called("process_request", s, 0, FALSE, 0)
    /\ pre' = Snapshot
    /\ log' = <<>>
    /\ UNCHANGED <<capacity, attack_requests, session, solver>>

allocate_requests ==
    /\ pc = "idle"
    /\ mitigation_cost <= MaxCost
    /\ extra_service_latency <= MaxLatency
    /\ LET a == allocate(current_load, capacity, attack_requests,
                         mitigation_cost, extra_service_latency)
       IN  /\ current_load' = a.st.load
           /\ attack_requests' = a.requests
           /\ mitigation_cost' = a.st.mc
           /\ extra_service_latency' = a.st.lat
           /\ log' = a.st.log
    /\ call' = Called("allocate_requests", 0, 0, FALSE, 0)
    /\ pre' = Snapshot
    /\ UNCHANGED <<capacity, total_processed_requests, solver>>

process_requests ==
    /\ pc = "idle"
    /\ LET again == call.op = "process_requests"
           d == drain_loop([load |-> current_load,
                            tpr |-> total_processed_requests], 1)
       IN  /\ again => call.k < MaxDrains
           /\ total_processed_requests <= MaxProcessed
           /\ current_load' = d.load
           /\ total_processed_requests' = d.tpr
           /\ call' = Called("process_requests", 0, 0, FALSE,
                             IF again THEN call.k + 1 ELSE 1)
           /\ pre' = IF again THEN pre ELSE Snapshot
    /\ log' = <<>>
    /\ UNCHANGED <<capacity, attack_requests, mitigation_cost,
                   extra_service_latency, solver>>

\* the call, up to the first test of `while iteration < 1000`
find_nash_equilibrium ==
    /\ pc = "idle"
    /\ pc' = "nash"
    /\ iteration' = 0
    /\ nash_equilibrium_reached' = FALSE
    /\ round' = NoRound
    /\ call' = Called("find_nash_equilibrium", 0, 0, FALSE, 0)
    /\ pre' = Snapshot
    /\ log' = <<>>
    /\ UNCHANGED <<capacity, current_load, attack_requests, session>>

loop_continues_le == iteration <= MaxRounds

\* `while iteration < 1000`
loop_continues == iteration < MaxRounds

\* one round of the while loop
NashRound ==
    /\ pc = "nash"
    /\ ~ nash_equilibrium_reached
    /\ loop_continues
    /\ LET r == nash_round(current_load, capacity, attack_requests)
       IN  /\ current_load' = r.load
           /\ nash_equilibrium_reached' = r.reached
           /\ round' = [start |-> current_load, found |-> r.found,
                        commits |-> r.commits]
    /\ iteration' = iteration + 1
    /\ UNCHANGED <<capacity, attack_requests, session, pc, call, pre, log>>

\* the loop is left (break, or the cap) and the iteration count is printed;
\* the locals of the call are dead from here on
NashReport ==
    /\ pc = "nash"
    /\ nash_equilibrium_reached \/ ~ loop_continues
    /\ pc' = "idle"
    /\ call' = Called("find_nash_equilibrium", 0, 0, TRUE, iteration)
    /\ iteration' = 0
    /\ nash_equilibrium_reached' = FALSE
    /\ round' = NoRound
    /\ UNCHANGED <<capacity, current_load, attack_requests, session, pre, log>>

Next ==
    \/ \E s \in Servers : \E i \in 1..Len(attack_requests) :
           CallAddRequest(s, attack_requests[i])
    \/ \E s \in Servers : CallRemoveRequest(s)
    \/ \E s \in Servers : CallProcessRequest(s)
    \/ allocate_requests
    \/ process_requests
    \/ find_nash_equilibrium
    \/ NashRound
    \/ NashReport

Spec == Init /\ [][Next]_vars

Scenario1Spec == Scenario1Init /\ [][Next]_vars

\* the solver alone, on servers with any load; a call of
\* find_nash_equilibrium runs on until it returns
SolverNext == find_nash_equilibrium \/ NashRound \/ NashReport

SolverSpec ==
    /\ LoadedInit
    /\ [][SolverNext]_vars
    /\ WF_vars(NashRound)
    /\ WF_vars(NashReport)

\* ---- EDMGame.calculate_metrics and the configurations it is given --------

\* max(server.capacity for server in self.edge_servers), on a non-empty list
max_capacity(cap) ==
    CHOOSE m \in {cap[s] : s \in 1..Len(cap)} :
        \A s \in 1..Len(cap) : cap[s] <= m

\* the exception the three ratios raise, in the order they are computed, or
\* "none" when the three lines are printed
metrics_raised(cap, num_requests, iterations) ==
    IF iterations = 0 THEN "ZeroDivisionError"
    ELSE IF num_requests = 0 THEN "ZeroDivisionError"
    ELSE IF cap = <<>> THEN "ValueError"
    ELSE IF Len(cap) * max_capacity(cap) = 0 THEN "ZeroDivisionError"
    ELSE "none"

\* edm_game.calculate_metrics(num_requests, iterations)
calculate_metrics(num_requests, iterations) ==
    /\ pc = "idle"
    /\ LET raised == metrics_raised(capacity, num_requests, iterations)
       IN  call' = [op           |-> "calculate_metrics",
                    server       |-> 0,
                    intensity    |-> 0,
                    ok           |-> raised = "none",
                    k            |-> 0,
                    num_requests |-> num_requests,
                    iterations   |-> iterations,
                    raised       |-> raised]
    /\ pre' = Snapshot
    /\ log' = <<>>
    /\ UNCHANGED <<capacity, current_load, attack_requests, session, solver>>

\* every list of servers and requests the constructor accepts, a capacity
\* of 0 and the empty lists included
AnyCapacityLists == UNION {[1..n -> 0..MaxCapacity] : n \in 0..MaxServers}

AnyInit ==
    /\ capacity \in AnyCapacityLists
    /\ current_load = [s \in 1..Len(capacity) |-> 0]
    /\ attack_requests \in RequestLists
    /\ NewSession

\* the session of the script: allocation, draining, and the metrics for the
\* size of the batch and a number of iterations
MetricsNext ==
    \/ allocate_requests
    \/ process_requests
    \/ \E iterations \in 0..MaxIterations :
           calculate_metrics(Len(attack_requests), iterations)

MetricsSpec == AnyInit /\ [][MetricsNext]_vars

\* ---- helpers of the properties ------------------------------------------

RECURSIVE SetSum(_, _)
SetSum(f, S) ==
    IF S = {} THEN 0
    ELSE LET x == CHOOSE y \in S : TRUE IN f[x] + SetSum(f, S \ {x})

Max(a, b) == IF a >= b THEN a ELSE b
Min(a, b) == IF a <= b THEN a ELSE b

Allocated == call.op = "allocate_requests"

WithOutcome(o) == {j \in 1..Len(log) : log[j].outcome = o}

\* the loads right after the j-th request of the call was handled
LoadAfter(j) == IF j < Len(log) THEN log[j + 1].load ELSE current_load

TypeOK ==
    /\ current_load \in [Servers -> Int]
    /\ capacity \in [Servers -> Nat]
    /\ pc \in {"idle", "nash"}
    /\ iteration \in 0..MaxRounds
    /\ mitigation_cost \in Nat
    /\ extra_service_latency \in Nat
    /\ total_processed_requests \in Nat

\* ---- C1 -----------------------------------------------------------------
\* C1: after allocate_requests, started at mitigation_cost = c0, the increase
\* mitigation_cost - c0 is the sum of the intensities of exactly the requests
\* whose add_request succeeded; a penalised request adds nothing.
C1_CostIsAdmittedIntensity ==
    Allocated =>
        mitigation_cost - pre.mc =
            SetSum([j \in WithOutcome("admitted") |-> log[j].request.intensity],
                   WithOutcome("admitted"))

\* a second call (c0 > 0) that admits a request and penalises another, both
\* with a positive intensity
C1_Witness ==
    /\ Allocated
    /\ pre.mc > 0
    /\ \E j \in WithOutcome("admitted") : log[j].request.intensity >= 1
    /\ \E j \in WithOutcome("failed") \cup WithOutcome("empty") :
           log[j].request.intensity >= 1

\* ---- C2 -----------------------------------------------------------------
\* C2: in one allocate_requests call over M requests every request gets
\* exactly one outcome: it is admitted to exactly one server (whose load grows
\* by its intensity, all other loads unchanged), or it adds one unit to
\* extra_service_latency and changes no load.  The increase of
\* extra_service_latency is the number of empty-heap plus failed attempts and
\* admitted-count + increase = M.
C2_OneOutcomePerRequest ==
    Allocated =>
        /\ Len(log) = Len(attack_requests)
        /\ {log[j].request : j \in 1..Len(log)}
               = {attack_requests[j] : j \in 1..Len(attack_requests)}
        /\ \A j \in 1..Len(log) :
               /\ log[j].outcome \in {"admitted", "failed", "empty"}
               /\ \/ /\ log[j].outcome = "admitted"
                     /\ log[j].server \in Servers
                     /\ LoadAfter(j) =
                            [log[j].load EXCEPT ![log[j].server] =
                                @ + log[j].request.intensity]
                  \/ /\ log[j].outcome # "admitted"
                     /\ LoadAfter(j) = log[j].load
        /\ extra_service_latency - pre.lat =
               Cardinality(WithOutcome("empty")) + Cardinality(WithOutcome("failed"))
        /\ Cardinality(WithOutcome("admitted"))
               + (extra_service_latency - pre.lat) = Len(attack_requests)

\* a call over three requests, started with a latency already counted, that
\* admits some and fails some
C2_Witness ==
    /\ Allocated
    /\ Len(attack_requests) = 3
    /\ pre.lat > 0
    /\ WithOutcome("admitted") # {}
    /\ WithOutcome("failed") # {}

\* ---- C3 -----------------------------------------------------------------
\* C3: current_load >= 0 for every server in every reachable state, under any
\* interleaving of the six operations (all intensities are naturals).
C3_LoadNonNegative ==
    \A s \in Servers : current_load[s] >= 0

\* remove_request was called on a server that was already empty, after the
\* allocator and the processor have run
C3_Witness ==
    /\ call.op = "remove_request"
    /\ pre.load[call.server] = 0
    /\ current_load[call.server] = 0
    /\ mitigation_cost > 0
    /\ total_processed_requests > 0

\* ---- C4 -----------------------------------------------------------------
\* C4 as stated: right after every successful add_request the server has
\* current_load <= capacity.
C4_WithinCapacityAfterAdmission ==
    (call.op = "add_request" /\ call.ok) =>
        current_load[call.server] <= capacity[call.server]

\* C4 as amended: right after every successful add_request the server has
\* current_load <= capacity - 1 + intensity (so current_load <= capacity when
\* the intensity is at most 1); for the direct call and for every admission
\* of the allocator.
C4_WithinCapacityPlusIntensity ==
    /\ (call.op = "add_request" /\ call.ok) =>
           /\ current_load[call.server]
                  <= capacity[call.server] - 1 + call.intensity
           /\ call.intensity <= 1 =>
                  current_load[call.server] <= capacity[call.server]
    /\ Allocated =>
           \A j \in WithOutcome("admitted") :
               /\ LoadAfter(j)[log[j].server]
                      <= capacity[log[j].server] - 1 + log[j].request.intensity
               /\ log[j].request.intensity <= 1 =>
                      LoadAfter(j)[log[j].server] <= capacity[log[j].server]

\* a successful admission that ends exactly at capacity - 1 + intensity, above
\* the capacity
C4_Witness ==
    /\ call.op = "add_request"
    /\ call.ok
    /\ call.intensity = 2
    /\ current_load[call.server] = capacity[call.server] + 1

\* ---- C5 -----------------------------------------------------------------
\* C5: add_request on a server with load L and capacity C: if L < C it
\* succeeds and the load becomes exactly L + intensity, uncapped (at most
\* C - 1 + intensity); if L >= C it fails and the load stays L.
C5_AddRequestContract ==
    call.op = "add_request" =>
        LET s == call.server
            L == pre.load[s]
            C == capacity[s]
        IN  IF L < C
            THEN /\ call.ok
                 /\ current_load[s] = L + call.intensity
                 /\ current_load[s] <= C - 1 + call.intensity
            ELSE /\ ~ call.ok
                 /\ current_load[s] = L

\* a success that overshoots the capacity
C5_Witness ==
    /\ call.op = "add_request"
    /\ call.ok
    /\ pre.load[call.server] < capacity[call.server]
    /\ current_load[call.server] > capacity[call.server]

\* ---- C6 -----------------------------------------------------------------
Scenario1Call ==
    /\ Allocated
    /\ pre.load = <<0, 0>>
    /\ pre.mc = 0
    /\ pre.lat = 0

\* C6 as stated: in Scenario 1 allocate_requests admits all three requests
\* and ends with mitigation_cost = 9 and extra_service_latency = 0.
C6_Scenario1AllAdmitted ==
    Scenario1Call =>
        /\ WithOutcome("admitted") = {1, 2, 3}
        /\ mitigation_cost = 9
        /\ extra_service_latency = 0

\* C6 as amended: in Scenario 1 allocate_requests admits R0 to the server
\* that wins the tie (load 5) and R1 to the other server (load 3); R2 is
\* offered to that other server, the lowest-loaded one, which is no longer
\* available, and fails; the call ends with mitigation_cost = 8 and
\* extra_service_latency = 1, whichever server wins the tie.
C6_Scenario1TwoAdmitted ==
    Scenario1Call =>
        /\ Len(log) = 3
        /\ log[1].request.id = 1 /\ log[1].outcome = "admitted"
        /\ log[2].request.id = 2 /\ log[2].outcome = "admitted"
        /\ log[3].request.id = 3 /\ log[3].outcome = "failed"
        /\ log[2].server # log[1].server
        /\ log[3].server = log[2].server
        /\ current_load[log[1].server] = 5
        /\ current_load[log[2].server] = 3
        /\ mitigation_cost = 8
        /\ extra_service_latency = 1

\* the call of the scenario, with the server of capacity 2 winning the tie
C6_Witness ==
    /\ Scenario1Call
    /\ capacity[log[1].server] = 2

\* ---- C7 -----------------------------------------------------------------
NoneAvailableBefore == \A s \in Servers : pre.load[s] >= capacity[s]

\* C7: if no server is available when allocate_requests is called (no
\* servers, or each has current_load >= capacity), every request of the batch
\* adds one unit to extra_service_latency, mitigation_cost is unchanged and no
\* load changes; with an empty batch the call changes no server and no counter.
C7_NoServerAvailable ==
    Allocated =>
        /\ NoneAvailableBefore =>
               /\ extra_service_latency - pre.lat = Len(attack_requests)
               /\ mitigation_cost = pre.mc
               /\ current_load = pre.load
        /\ attack_requests = <<>> =>
               /\ current_load = pre.load
               /\ mitigation_cost = pre.mc
               /\ extra_service_latency = pre.lat
               /\ total_processed_requests = pre.tpr

\* a call with servers, all of them full, and a batch of positive intensities
C7_Witness ==
    /\ Allocated
    /\ Servers # {}
    /\ NoneAvailableBefore
    /\ Len(attack_requests) >= 2
    /\ \A j \in 1..Len(attack_requests) : attack_requests[j].intensity >= 1

\* ---- C8 -----------------------------------------------------------------
\* C8: find_nash_equilibrium always terminates, for any servers and requests,
\* and the iteration count k it reports satisfies 1 <= k <= 1000.
C8_SolverTerminates ==
    [](pc = "nash" =>
          <>(/\ pc = "idle"
             /\ call.op = "find_nash_equilibrium"
             /\ call.ok
             /\ call.k \in 1..1000))

\* a call that stopped at the cap
C8_Witness ==
    /\ pc = "idle"
    /\ call.op = "find_nash_equilibrium"
    /\ call.ok
    /\ call.k = 1000

\* ---- C9 -----------------------------------------------------------------
AllPositive ==
    \A j \in 1..Len(attack_requests) : attack_requests[j].intensity >= 1

Reported == pc = "idle" /\ call.op = "find_nash_equilibrium" /\ call.ok

\* C9: if every request has intensity >= 1 then, for every server and every
\* starting load, no speculative addition of find_nash_equilibrium costs
\* strictly less than the round's incumbent best, no candidate is committed,
\* and the solver halts reporting iteration 1.
C9_NoCandidateWhenAllPositive ==
    AllPositive =>
        /\ (pc = "nash" /\ iteration >= 1) =>
               /\ round.found = {}
               /\ round.commits = <<>>
               /\ nash_equilibrium_reached
               /\ iteration = 1
        /\ Reported => call.k = 1

\* a solver run over loaded servers and positive requests whose trials left a
\* load changed
C9_Witness ==
    /\ Reported
    /\ AllPositive
    /\ Len(attack_requests) >= 2
    /\ \E s \in Servers : pre.load[s] > 0 /\ current_load[s] # pre.load[s]

\* ---- C10 ----------------------------------------------------------------
\* C10: k consecutive process_requests calls take each server from load L to
\* max(L - k, 0) and add the sum over the servers of min(L, k) to
\* total_processed_requests; the other counters are untouched.
C10_DrainCycle ==
    call.op = "process_requests" =>
        /\ \A s \in Servers :
               current_load[s] = Max(pre.load[s] - call.k, 0)
        /\ total_processed_requests - pre.tpr =
               SetSum([s \in Servers |-> Min(pre.load[s], call.k)], Servers)
        /\ mitigation_cost = pre.mc
        /\ extra_service_latency = pre.lat

\* two calls in a row over a server that the first call emptied and a server
\* that both calls drained
C10_Witness ==
    /\ call.op = "process_requests"
    /\ call.k = 2
    /\ \E s \in Servers : pre.load[s] = 1
    /\ \E s \in Servers : pre.load[s] >= 2

\* ---- C12 ----------------------------------------------------------------
UnavailableBefore == {s \in Servers : pre.load[s] >= capacity[s]}

Range(q) == {q[j] : j \in 1..Len(q)}

\* C12: a server that is not available when allocate_requests is called is
\* never offered a request during the call (it is in no heap and no request
\* is tried on it) and its load after the call is its load before.
C12_UnavailableServerUntouched ==
    Allocated =>
        \A s \in UnavailableBefore :
            /\ current_load[s] = pre.load[s]
            /\ \A j \in 1..Len(log) :
                   log[j].server # s /\ s \notin Range(log[j].heap)

\* a call with a full server and an available one, in which a request is
\* admitted and a later one fails
C12_Witness ==
    /\ Allocated
    /\ UnavailableBefore # {}
    /\ WithOutcome("admitted") # {}
    /\ WithOutcome("failed") # {}

\* ---- C13 ----------------------------------------------------------------
\* the heap property of heapq: no entry is less than its parent
HeapOrdered(load, heap) ==
    \A p \in 1..(Len(heap) - 1) :
        ~ (load[heap[p + 1]] < load[heap[((p - 1) \div 2) + 1]])

\* C13: whenever allocate_requests offers a request to a server, the load of
\* that server is at most the load of every other server of the heap; the
\* heap order is valid before every pop of the call.
C13_OfferedServerHasLeastLoad ==
    Allocated =>
        \A j \in 1..Len(log) :
            /\ HeapOrdered(log[j].load, log[j].heap)
            /\ log[j].server # 0 =>
                   \A t \in Range(log[j].heap) :
                       log[j].load[log[j].server] <= log[j].load[t]

\* the third request of a call is offered to the second server of the list,
\* strictly below the first one
C13_Witness ==
    /\ Allocated
    /\ Len(log) = 3
    /\ log[3].server = 2
    /\ Len(log[3].heap) = 2
    /\ log[3].load[2] < log[3].load[1]

\* ---- C14 ----------------------------------------------------------------
AvailableBefore == Servers \ UnavailableBefore

\* C14: within one allocate_requests call the servers of the heap are
\* exactly the servers available at the start of the call, after a success
\* and after a failure alike; so the empty-heap branch is taken for every
\* request of the call or for none.
C14_ParticipantsFixed ==
    Allocated =>
        /\ \A j \in 1..Len(log) :
               /\ Range(log[j].heap) = AvailableBefore
               /\ Len(log[j].heap) = Cardinality(AvailableBefore)
        /\ WithOutcome("empty") \in {{}, 1..Len(log)}

\* a request fails on the popped server, which admitted an earlier request
\* of the call, while another server of the heap still has room
C14_Witness ==
    /\ Allocated
    /\ \E j \in WithOutcome("failed") :
           /\ \E t \in Range(log[j].heap) : log[j].load[t] < capacity[t]
           /\ \E i \in WithOutcome("admitted") :
                  i < j /\ log[i].server = log[j].server

\* ---- C15 ----------------------------------------------------------------
\* the position of request x in the list q
PositionIn(q, x) == CHOOSE j \in 1..Len(q) : q[j] = x

\* C15: allocate_requests offers the requests in non-increasing order of
\* intensity, requests of equal intensity in the order they had in the list
\* before the call; the list left behind is that same order and holds the
\* requests of the batch, each once.
C15_OfferedInStableDescendingOrder ==
    [][call'.op = "allocate_requests" =>
          LET old == attack_requests
              new == attack_requests'
          IN  /\ new = [j \in 1..Len(log') |-> log'[j].request]
              /\ Len(new) = Len(old)
              /\ Range(new) = Range(old)
              /\ \A i, j \in 1..Len(new) :
                     i < j =>
                         /\ new[i].intensity >= new[j].intensity
                         /\ new[i].intensity = new[j].intensity =>
                                PositionIn(old, new[i]) < PositionIn(old, new[j])
    ]_vars

\* a batch given in increasing order of intensity with a tie has been
\* reordered: the tied requests come last and keep their order
C15_Witness ==
    /\ Allocated
    /\ Len(attack_requests) = 3
    /\ attack_requests[1].id = 3
    /\ attack_requests[2].id = 1
    /\ attack_requests[3].id = 2
    /\ attack_requests[2].intensity = attack_requests[3].intensity
    /\ attack_requests[1].intensity > attack_requests[2].intensity

\* ---- C19 ----------------------------------------------------------------
\* C19: after one allocate_requests call the increase of current_load summed
\* over all servers equals the increase of mitigation_cost in that call.
C19_LoadIncreaseIsCostIncrease ==
    Allocated =>
        SetSum([s \in Servers |-> current_load[s] - pre.load[s]], Servers)
            = mitigation_cost - pre.mc

\* a call on servers already loaded that raises the load of both servers,
\* one of them above its capacity, and penalises a request
C19_Witness ==
    /\ Allocated
    /\ \E s \in Servers : pre.load[s] > 0
    /\ Len(capacity) = 2
    /\ \A s \in Servers : current_load[s] > pre.load[s]
    /\ \E s \in Servers : current_load[s] > capacity[s]
    /\ WithOutcome("failed") # {}

\* ---- C16 ----------------------------------------------------------------
\* a round of the solver has just ended
RoundDone == pc = "nash" /\ iteration >= 1

LeavesLoop == pc' = "idle" /\ call'.ok /\ call'.k = iteration

RunsAnotherRound == pc' = "nash" /\ iteration' = iteration + 1

\* C16 as stated: the solver stops before the cap exactly at the end of the
\* first round in which no server's current_load differs between the start
\* and the end of the round, and a round that changed a load is followed by
\* another round while the cap is not reached.
C16_StopsWhenNoLoadChanged ==
    [][(RoundDone /\ iteration < MaxRounds) =>
          IF current_load = round.start THEN LeavesLoop ELSE RunsAnotherRound
    ]_vars

\* C16, amended: the solver stops before the cap exactly at the end of the
\* first round in which no server committed a best-found candidate, whether
\* or not a load changed in that round; a round with a commit is followed by
\* another round while the cap is not reached, and the round that reaches the
\* cap is the last.
C16_StopsWhenNoCandidate ==
    [][RoundDone =>
          /\ nash_equilibrium_reached <=> round.commits = <<>>
          /\ IF round.commits = <<>> \/ iteration = MaxRounds
             THEN LeavesLoop
             ELSE RunsAnotherRound
    ]_vars

\* the solver is about to stop after a first round that committed nothing and
\* changed a load
C16_Witness ==
    /\ RoundDone
    /\ iteration = 1
    /\ round.commits = <<>>
    /\ nash_equilibrium_reached
    /\ current_load # round.start

\* ---- C18 ----------------------------------------------------------------
\* C18: every request recorded as a best-found candidate of the solver has
\* intensity 0, so no commit changes a load; the loads a round changes are
\* changed by its trials.
C18_CandidatesHaveIntensityZero ==
    RoundDone =>
        /\ \A request \in round.found : request.intensity = 0
        /\ \A j \in 1..Len(round.commits) :
               /\ round.commits[j].request.intensity = 0
               /\ round.commits[j].request \in round.found
               /\ round.commits[j].after = round.commits[j].before
               /\ current_load[round.commits[j].server] = round.commits[j].after

\* a round over a list that also holds positive requests commits a candidate
\* on a server whose load the trials have lowered
C18_Witness ==
    /\ RoundDone
    /\ \E j \in 1..Len(attack_requests) : attack_requests[j].intensity >= 1
    /\ \E j \in 1..Len(round.commits) :
           current_load[round.commits[j].server]
               < round.start[round.commits[j].server]

\* ---- C20 ----------------------------------------------------------------
\* C20: find_nash_equilibrium never changes the load of a server that is not
\* available when the solver starts, nor mitigation_cost,
\* extra_service_latency or total_processed_requests, in any round.
C20_SolverLeavesFullServersAndCounters ==
    call.op = "find_nash_equilibrium" =>
        /\ \A s \in UnavailableBefore : current_load[s] = pre.load[s]
        /\ mitigation_cost = pre.mc
        /\ extra_service_latency = pre.lat
        /\ total_processed_requests = pre.tpr

\* a run of several rounds, after allocation and draining, that changed the
\* load of an available server beside a full one
C20_Witness ==
    /\ Reported
    /\ call.k >= 2
    /\ mitigation_cost > 0
    /\ total_processed_requests > 0
    /\ UnavailableBefore # {}
    /\ \E s \in Servers : current_load[s] # pre.load[s]

\* ---- C17 ----------------------------------------------------------------
\* remove_request has been called right after a successful add_request on
\* the same server
AddThenRemove == call.op = "remove_request" /\ call.ok

\* C17: a successful add_request of intensity i on a server with load L,
\* immediately followed by remove_request, leaves L + i - 1 when L + i > 0
\* and 0 when L + i = 0: the load is back at L only for i = 1 (or i = 0 with
\* L = 0), is i - 1 above L for i >= 2 and one below L for i = 0 with L >= 1.
C17_AddThenRemoveResidue ==
    AddThenRemove =>
        LET L == pre.load[call.server]
            i == call.intensity
            after == current_load[call.server]
        IN  /\ after = (IF L + i > 0 THEN L + i - 1 ELSE 0)
            /\ after = L <=> (i = 1 \/ (i = 0 /\ L = 0))
            /\ i >= 2 => after = L + (i - 1)
            /\ (i = 0 /\ L >= 1) => after = L - 1

\* the pair has left a residue on a loaded server
C17_Witness ==
    /\ AddThenRemove
    /\ call.intensity = 2
    /\ pre.load[call.server] = 1
    /\ current_load[call.server] = 2

\* ---- C11 ----------------------------------------------------------------
\* C11: a session with zero servers, zero requests, zero iterations or
\* all-zero capacities is rejected at construction, so no such configuration
\* reaches the ratios of calculate_metrics, and the ratios raise nothing.
C11_NoInvalidConfigurationReachesRatios ==
    call.op = "calculate_metrics" =>
        /\ Len(capacity) > 0
        /\ \E s \in Servers : capacity[s] > 0
        /\ call.num_requests > 0
        /\ call.iterations > 0
        /\ call.raised = "none"
====
